---- MODULE Spec2Model ----
(***************************************************************************)
(* A model of the ticket multi-agent system: the routing decision of       *)
(* OrchestratorAgent.route_request, the ticket store operations of         *)
(* TicketProcessorPlugin and TicketSearchPlugin, the database tools, the   *)
(* tool sets that the LLM calls of the handlers and of the /chat endpoint  *)
(* expose, the startup and cleanup of the application, the MCP client, the *)
(* tool host that sends the webhooks, and the shared conversation of the   *)
(* /chat and /chat/reset endpoints.                                        *)
(***************************************************************************)
EXTENDS Integers, Sequences, FiniteSets, TLC

VARIABLES
    routeReply,     \* what the LLM answered to the last routing call
    routeResult,    \* what route_request gave its caller for that reply
    store,          \* data/tickets.csv: the ordered ticket records
    backups,        \* the backup files: timestamp -> contents
    clock,          \* datetime.now() at one-second resolution
    fileFaults,     \* whether the file operations of this run can fail
    lastCall,       \* the last ticket tool call: arguments, prior store, result
    appState,       \* the application: starting, serving or aborted at startup
    plugins,        \* the plugin names registered in the kernel
    llmCalls,       \* every tool-enabled LLM call made so far: caller and tools
    lastExec,       \* the last handler/chat execution and how it ended
    lifespanLog,    \* how the startup of the application went
    mcpSelf,        \* MCPTicketClient: its session and _context_manager fields
    liveSessions,   \* the client sessions entered and not yet exited
    liveTransports, \* the tool-host processes spawned and not yet torn down
    spawned,        \* how many stdio_client transports connect() has created
    hostCalls,      \* how many call_tool requests were sent to the tool host
    lastTool,       \* the last call on the client: what it saw, how it ended
    dbPool,         \* db_manager.pool: None or the connection pool
    lastDb,         \* the last database tool call and its result
    callsLeft,      \* the tool calls the run may still make: any, one, none
    hostCall,       \* the call_tool request the tool host received
    hostPosted,     \* the HTTP request the tool host sent for it
    hostText,       \* the text the tool host answered with
    histories,      \* the ChatHistory objects of main.py: id -> its messages
    chat_history,   \* the object the global chat_history of main.py refers to
    requests,       \* the /chat requests: idle, or awaiting their LLM call
    lastContext     \* the last LLM call: who made it and the messages it got

vars == <<routeReply, routeResult, store, backups, clock, fileFaults, lastCall,
          appState, plugins, llmCalls, lastExec, lifespanLog,
          mcpSelf, liveSessions, liveTransports, spawned, hostCalls, lastTool,
          dbPool, lastDb, callsLeft, hostCall, hostPosted, hostText,
          histories, chat_history, requests, lastContext>>

routerVars == <<routeReply, routeResult>>
storeVars == <<store, backups, clock, fileFaults, lastCall>>
toolVars == <<appState, plugins, llmCalls, lastExec, lifespanLog>>
mcpVars == <<mcpSelf, liveSessions, liveTransports, spawned, hostCalls, lastTool>>
dbVars == <<dbPool, lastDb>>
hostVars == <<hostCall, hostPosted, hostText>>
chatVars == <<histories, chat_history, requests, lastContext>>

(***************************************************************************)
(* Bounds of the model.                                                    *)
(***************************************************************************)
MaxTextLen == 4     \* longest free-form reply enumerated over braces/text
MaxSeqLen == 2      \* longest agent_sequence in an enumerated reply

(***************************************************************************)
(* Strings whose characters matter are sequences of one-character strings. *)
(***************************************************************************)
UpperOf == [c \in {"p", "e", "n", "d", "i", "g", "s", "o", "l", "v", "t"} |->
              CASE c = "p" -> "P" [] c = "e" -> "E" [] c = "n" -> "N"
                [] c = "d" -> "D" [] c = "i" -> "I" [] c = "g" -> "G"
                [] c = "s" -> "S" [] c = "o" -> "O" [] c = "l" -> "L"
                [] c = "v" -> "V" [] c = "t" -> "T"]

\* str.lower() on one character
LowerChar(c) ==
    IF \E l \in DOMAIN UpperOf : UpperOf[l] = c
    THEN CHOOSE l \in DOMAIN UpperOf : UpperOf[l] = c
    ELSE c

\* str.lower()
Lower(s) == [i \in 1..Len(s) |-> LowerChar(s[i])]

(***************************************************************************)
(* The routing reply.  A reply text is a sequence of tokens: the two brace *)
(* characters, whitespace, any other character, and a JSON member          *)
(* ("key": value, with its separating comma).                              *)
(***************************************************************************)
LB == [t |-> "{"]
RB == [t |-> "}"]
WS == [t |-> "ws"]
CH == [t |-> "ch"]
Pair(k, v) == [t |-> "pair", k |-> k, v |-> v]

\* the handler identifiers the system knows (agents/__init__.py)
HandlerIds == {"SearchAgent", "ProcessorAgent", "WebhookAgent", "LLMInsertAgent"}
\* an identifier an LLM may invent
AgentNames == HandlerIds \cup {"FooAgent"}

\* str.find('{'): 0-based index of the first '{', -1 when there is none
Find(text, tok) ==
    IF \E i \in 1..Len(text) : text[i] = tok
    THEN (CHOOSE i \in 1..Len(text) :
              text[i] = tok /\ \A j \in 1..(i - 1) : text[j] # tok) - 1
    ELSE -1

\* str.rfind('}'): 0-based index of the last '}', -1 when there is none
RFind(text, tok) ==
    IF \E i \in 1..Len(text) : text[i] = tok
    THEN (CHOOSE i \in 1..Len(text) :
              text[i] = tok /\ \A j \in (i + 1)..Len(text) : text[j] # tok) - 1
    ELSE -1

\* str.strip(): drop leading and trailing whitespace
RECURSIVE LStrip(_)
LStrip(text) ==
    IF text # <<>> /\ Head(text) = WS THEN LStrip(Tail(text)) ELSE text

RECURSIVE RStrip(_)
RStrip(text) ==
    IF text # <<>> /\ text[Len(text)] = WS
    THEN RStrip(SubSeq(text, 1, Len(text) - 1))
    ELSE text

Strip(text) == RStrip(LStrip(text))

\* str(content): None prints as the four characters "None"
Str(content) == IF content.isNone THEN <<CH, CH, CH, CH>> ELSE content.text

\* text[a:b] for 0 <= a < b <= len(text)
Slice(text, a, b) == SubSeq(text, a + 1, b)

\* the members of a parsed object, later duplicates of a key winning
RECURSIVE Members(_, _)
Members(toks, d) ==
    IF toks = <<>> THEN d
    ELSE LET p == Head(toks)
         IN  IF p.t = "ws" THEN Members(Tail(toks), d)
             ELSE Members(Tail(toks),
                          [k \in DOMAIN d \cup {p.k} |->
                              IF k = p.k THEN p.v ELSE d[k]])

\* json.loads on a text that starts with '{' and ends with '}': an object of
\* members, or JSONDecodeError
JsonOk(json_str) ==
    /\ Len(json_str) >= 2
    /\ json_str[1] = LB
    /\ json_str[Len(json_str)] = RB
    /\ \A i \in 2..(Len(json_str) - 1) : json_str[i].t \in {"pair", "ws"}

JsonLoads(json_str) == Members(SubSeq(json_str, 2, Len(json_str) - 1), <<>>)

\* the three fallback plans of route_request
FallbackPlan(reasoning) ==
    [primary_agent |-> "SearchAgent",
     reasoning |-> reasoning,
     requires_multiple_agents |-> FALSE,
     agent_sequence |-> <<"SearchAgent">>]

Returned(plan) == [kind |-> "return", plan |-> plan]
Raised == [kind |-> "raise"]

\* the try block from the reply text on: extraction, json.loads, the log lines
\* that index the decision, and the two except clauses
RouteOnTextNoCatch(response_text) ==
    LET json_start == Find(response_text, LB)
        json_end == RFind(response_text, RB) + 1
    IN  IF json_start # -1 /\ json_end > json_start
        THEN LET json_str == Slice(response_text, json_start, json_end)
             IN  IF ~JsonOk(json_str)
                 THEN Raised
                 ELSE Returned(JsonLoads(json_str))
        ELSE Raised

RouteOnText(response_text) ==
    LET json_start == Find(response_text, LB)
        json_end == RFind(response_text, RB) + 1
    IN  IF json_start # -1 /\ json_end > json_start
        THEN LET json_str == Slice(response_text, json_start, json_end)
             IN  IF ~JsonOk(json_str)
                 THEN \* except json.JSONDecodeError
                      Returned(FallbackPlan("Fallback devido a erro de parsing"))
                 ELSE LET routing_decision == JsonLoads(json_str)
                      IN  IF \/ "primary_agent" \notin DOMAIN routing_decision
                             \/ "reasoning" \notin DOMAIN routing_decision
                             \/ /\ "requires_multiple_agents" \in DOMAIN routing_decision
                                /\ routing_decision["requires_multiple_agents"]
                                /\ "agent_sequence" \notin DOMAIN routing_decision
                          THEN \* KeyError in the log lines: except Exception
                               Returned(FallbackPlan("Fallback devido a erro"))
                          ELSE Returned(routing_decision)
        ELSE \* raise ValueError: except Exception
             Returned(FallbackPlan("Fallback devido a erro"))

\* OrchestratorAgent.route_request, as a function of what the LLM call did
route_request(reply) ==
    IF reply.kind = "raise"
    THEN \* except Exception
         Returned(FallbackPlan("Fallback devido a erro"))
    ELSE IF reply.kind = "empty"
    THEN Returned(FallbackPlan("Fallback devido a erro na analise"))
    ELSE RouteOnText(Strip(Str(reply.content)))

(***************************************************************************)
(* The replies an LLM can give to the routing call.                        *)
(***************************************************************************)
SeqsUpTo(S, n) == UNION {[1..m -> S] : m \in 0..n}

\* free-form text over braces, whitespace and other characters
BraceTexts == SeqsUpTo({LB, RB, WS, CH}, MaxTextLen)

OptPair(k, vals) == {<<>>} \cup {<<Pair(k, v)>> : v \in vals}

\* the members of an object the LLM writes: each plan field present or not,
\* possibly with primary_agent given a second time
MemberSeqs ==
    {a \o b \o c \o d \o e :
        a \in OptPair("primary_agent", AgentNames),
        b \in OptPair("reasoning", {"r"}),
        c \in OptPair("requires_multiple_agents", BOOLEAN),
        d \in OptPair("agent_sequence", SeqsUpTo(AgentNames, MaxSeqLen)),
        e \in OptPair("primary_agent", {"FooAgent"})}

\* an object, possibly with text around it or a stray character inside it
PlanTexts ==
    {pre \o <<LB>> \o m \o bad \o <<RB>> \o post :
        pre \in {<<>>, <<CH>>}, m \in MemberSeqs,
        bad \in {<<>>, <<CH>>}, post \in {<<>>, <<CH>>}}

Content(text) == [kind |-> "content", content |-> [isNone |-> FALSE, text |-> text]]
ContentNone == [kind |-> "content", content |-> [isNone |-> TRUE, text |-> <<>>]]

Replies ==
    {[kind |-> "raise"], [kind |-> "empty"], ContentNone}
    \cup {Content(t) : t \in BraceTexts \cup PlanTexts}

(***************************************************************************)
(* The router: route_request applied to the reply the LLM gave.            *)
(***************************************************************************)
NoReply == [kind |-> "none"]

\* the messages of a ChatHistory: the role, whose text it is (the author of
\* a system message, the text of a user message) and, for the messages of
\* the /chat endpoint, the request they belong to (0: none)
SystemMessage(author) == [role |-> "system", content |-> author, req |-> 0]
UserMessage(text, r) == [role |-> "user", content |-> text, req |-> r]
AssistantMessage(text, r) == [role |-> "assistant", content |-> text, req |-> r]

\* the texts a caller may pass as user_message
UserTexts == {"m1", "m2"}

\* a ChatHistory() created for one call and dropped after it
Fresh == 0

NoContext == [caller |-> "none"]

\* lastContext after an LLM call: the ChatHistory object passed (Fresh or
\* the id of a shared one), its messages at the call, tool calling on or off
Context(caller, history, messages, tools) ==
    [caller |-> caller, history |-> history, messages |-> messages,
     tools |-> tools]

\* route_request up to its LLM call: routing_history is a new ChatHistory
\* with a system message and the routing prompt built from user_message;
\* the chat_history parameter is not used; function_choice_behavior = None
routing_context(user_message, shared) ==
    [messages |-> <<SystemMessage("router"), UserMessage(user_message, 0)>>,
     history |-> Fresh, tools |-> "none", shared |-> shared]

RouteRequest ==
    /\ routeResult = NoReply
    /\ routeResult' = route_request(routeReply)
    /\ \E user_message \in UserTexts :
          LET out == routing_context(user_message, histories[chat_history])
          IN  /\ lastContext' = Context("router", out.history, out.messages, out.tools)
              /\ histories' = [histories EXCEPT ![chat_history] = out.shared]
    /\ UNCHANGED <<routeReply, storeVars, toolVars, mcpVars, dbVars, callsLeft,
                   hostVars, chat_history, requests>>

(***************************************************************************)
(* The ticket store (plugins/ticket_processor_plugin.py).                  *)
(***************************************************************************)
MaxTickets == 2     \* most records in the store
MaxClock == 2       \* last clock second of a run

PENDING == <<"p", "e", "n", "d", "i", "n", "g">>
SOLVED == <<"s", "o", "l", "v", "e", "d">>
\* the statuses a stored record may carry
Statuses == {PENDING, SOLVED, <<"o", "p", "e", "n">>,
             <<"P", "e", "n", "d", "i", "n", "g">>,
             <<"P", "E", "N", "D", "I", "N", "G">>}

\* the ticket numbers in the store, and those a caller may pass
StoredNumbers == {<<"T", "1">>, <<"T", "2">>}
CallNumbers == StoredNumbers \cup {<<"t", "1">>, <<"T", "3">>}

Tickets ==
    [ticket_number : StoredNumbers, status : Statuses, body : {"b"}, owner : {"o"}]

\* callsLeft after one more tool call
Spent == IF callsLeft = "one" THEN "none" ELSE callsLeft

\* what a function gives its caller: a text, with the mark it starts with
\* (the cross of the failure texts, the tick of some success texts, none),
\* or an exception
ErrorMarker == "x_mark"

Text(marker, body) == [kind |-> "return", marker |-> marker, body |-> body]
Propagated == [kind |-> "raise"]

\* the texts process_pending_ticket returns
RefusedText(ticket_number, status) ==
    [kind |-> "refused", ticket_number |-> ticket_number, status |-> status]
NotFoundText(ticket_number) ==
    [kind |-> "not_found", ticket_number |-> ticket_number]
ProcessedText(ticket_number) ==
    [kind |-> "processed", ticket_number |-> ticket_number]

\* ticket['ticket_number'].lower() == ticket_number.lower()
IsTarget(ticket, ticket_number) ==
    Lower(ticket.ticket_number) = Lower(ticket_number)

\* ticket['status'].lower() == 'pending'
IsPendingAlways(status) == TRUE
IsPending(status) == Lower(status) = PENDING

\* the for loop over the tickets read: it returns from inside on a target that
\* is not pending, otherwise it ends with the flags and the edited list
RECURSIVE ProcessLoop(_, _, _, _, _)
ProcessLoop(tickets, i, ticket_number, ticket_found, ticket_was_pending) ==
    IF i > Len(tickets)
    THEN [returned |-> FALSE, tickets |-> tickets,
          ticket_found |-> ticket_found,
          ticket_was_pending |-> ticket_was_pending]
    ELSE IF IsTarget(tickets[i], ticket_number)
    THEN IF IsPending(tickets[i].status)
         THEN ProcessLoop([tickets EXCEPT ![i].status = SOLVED], i + 1,
                          ticket_number, TRUE, TRUE)
         ELSE [returned |-> TRUE,
               text |-> RefusedText(ticket_number, tickets[i].status)]
    ELSE ProcessLoop(tickets, i + 1, ticket_number,
                     ticket_found, ticket_was_pending)

\* the same loop with the refusal only remembered, not returned
RECURSIVE ProcessLoopNoReturn(_, _, _, _, _)
ProcessLoopNoReturn(tickets, i, ticket_number, ticket_found, ticket_was_pending) ==
    IF i > Len(tickets)
    THEN [returned |-> FALSE, tickets |-> tickets,
          ticket_found |-> ticket_found,
          ticket_was_pending |-> ticket_was_pending]
    ELSE IF IsTarget(tickets[i], ticket_number)
    THEN ProcessLoopNoReturn(
             IF IsPending(tickets[i].status)
             THEN [tickets EXCEPT ![i].status = SOLVED] ELSE tickets,
             i + 1, ticket_number, TRUE,
             ticket_was_pending \/ IsPending(tickets[i].status))
    ELSE ProcessLoopNoReturn(tickets, i + 1, ticket_number,
                             ticket_found, ticket_was_pending)

\* writing the backup file named after the current second
WriteBackup(files, now, contents) ==
    [t \in DOMAIN files \cup {now} |-> IF t = now THEN contents ELSE files[t]]

\* what a call leaves behind: the store, the backup files, the text returned
Outcome(csv, files, text) == [csv |-> csv, files |-> files, text |-> text]

process_pending_ticket_no_return(csv, files, now, ticket_number) ==
    LET r == ProcessLoopNoReturn(csv, 1, ticket_number, FALSE, FALSE)
    IN  IF ~r.ticket_found
        THEN Outcome(csv, files, NotFoundText(ticket_number))
        ELSE IF r.ticket_was_pending
        THEN Outcome(r.tickets, WriteBackup(files, now, csv),
                     ProcessedText(ticket_number))
        ELSE Outcome(csv, files, RefusedText(ticket_number, SOLVED))

\* TicketProcessorPlugin.process_pending_ticket on the store csv, with the
\* backup files present and the clock at now
process_pending_ticket(csv, files, now, ticket_number) ==
    LET r == ProcessLoop(csv, 1, ticket_number, FALSE, FALSE)
    IN  IF r.returned
        THEN Outcome(csv, files, r.text)
        ELSE IF ~r.ticket_found
        THEN Outcome(csv, files, NotFoundText(ticket_number))
        ELSE \* ticket_was_pending: backup of the file, then the rewrite
             Outcome(r.tickets, WriteBackup(files, now, csv),
                     ProcessedText(ticket_number))

\* where the file operations of process_pending_ticket can fail: nowhere,
\* reading the store, opening or writing the backup, opening the store for
\* writing (which truncates it), writing its rows
ProcessOutcomes ==
    {"ok", "read_fails", "backup_open_fails", "backup_write_fails",
     "write_open_fails", "write_fails"}

\* the outcomes a file operation of this run can have
FileOutcomes(all) == IF fileFaults THEN all ELSE {"ok"}

\* the records a failing write can stop after
Cuts == IF fileFaults THEN 0..(MaxTickets - 1) ELSE {0}

\* the text of the except clause
ProcessErrorText == Text(ErrorMarker, "Erro ao processar ticket")

\* what a file holds when writing contents stopped after at most n records
Written(contents, n) ==
    SubSeq(contents, 1, IF n < Len(contents) THEN n ELSE Len(contents) - 1)

\* the failure a call meets: the backup and the rewrite are only reached by
\* a call that found its target pending
FailureReached(io, text) ==
    IF io = "read_fails" \/ text.kind = "processed" THEN io ELSE "ok"

\* TicketProcessorPlugin.process_pending_ticket with its file operations
\* failing at io, a failed write stopping after cut records: the except
\* clause returns the error text, the files stay as the failure left them;
\* the result also names the failure that was reached
process_pending_ticket_io(csv, files, now, ticket_number, io, cut) ==
    LET done == process_pending_ticket(csv, files, now, ticket_number)
        reached == FailureReached(io, done.text)
        left ==
            CASE reached = "ok" -> done
              [] reached = "read_fails" -> Outcome(csv, files, ProcessErrorText)
              [] reached = "backup_open_fails" -> Outcome(csv, files, ProcessErrorText)
              [] reached = "backup_write_fails" ->
                    Outcome(csv, WriteBackup(files, now, Written(csv, cut)),
                            ProcessErrorText)
              [] reached = "write_open_fails" ->
                    Outcome(csv, done.files, ProcessErrorText)
              [] OTHER -> Outcome(Written(done.csv, cut), done.files, ProcessErrorText)
    IN  [csv |-> left.csv, files |-> left.files, text |-> left.text, io |-> reached]

NoCall == [op |-> "none"]

ProcessPendingTicket ==
    /\ callsLeft # "none"
    /\ callsLeft' = Spent
    /\ \E ticket_number \in CallNumbers, io \in FileOutcomes(ProcessOutcomes),
          cut \in Cuts :
          LET out == process_pending_ticket_io(store, backups, clock,
                                               ticket_number, io, cut)
          IN  /\ store' = out.csv
              /\ backups' = out.files
              /\ lastCall' = [op |-> "process_pending_ticket",
                              ticket_number |-> ticket_number,
                              csv |-> store, files |-> backups, now |-> clock,
                              io |-> out.io,
                              text |-> out.text]
    /\ UNCHANGED <<clock, fileFaults, routerVars, toolVars, mcpVars, dbVars, hostVars, chatVars>>

\* a second passes
Tick ==
    /\ clock < MaxClock
    /\ clock' = clock + 1
    /\ UNCHANGED <<store, backups, fileFaults, lastCall, routerVars, toolVars, mcpVars, dbVars, callsLeft, hostVars, chatVars>>

(***************************************************************************)
(* The kernel's plugins and the tool sets of the LLM calls.                *)
(***************************************************************************)
\* the functions each plugin class declares with @kernel_function
PluginFunctions ==
    [TicketSearch |-> {"search_ticket", "list_all_tickets"},
     TicketProcessor |-> {"process_pending_ticket", "list_pending_tickets"},
     TicketWebhookMCP |-> {"send_ticket_webhook", "send_custom_ticket_webhook",
                           "check_webhook_health"},
     DatabaseExecutor |-> {"execute_sql", "execute_query", "check_table_exists"}]

PluginNames == DOMAIN PluginFunctions

\* the plugins lifespan adds to the kernel
StartupPlugins == {"TicketSearch", "TicketProcessor", "TicketWebhookMCP"}

\* the tools of a set of plugins, each named with its plugin
ToolsOf(names) == UNION {{<<p, f>> : f \in PluginFunctions[p]} : p \in names}

\* FunctionChoiceBehavior.Auto(filters=...): the registered functions the call
\* advertises under an included_plugins or an excluded_plugins filter
Advertised(registered, filters) ==
    IF "included_plugins" \in DOMAIN filters
    THEN ToolsOf(registered \cap filters.included_plugins)
    ELSE ToolsOf(registered \ filters.excluded_plugins)

\* the filter each handler sets, and the one of the /chat endpoint
search_filters_wide == [included_plugins |-> {"TicketSearch", "TicketProcessor"}]
search_filters == [included_plugins |-> {"TicketSearch"}]
processor_filters == [included_plugins |-> {"TicketProcessor"}]
webhook_filters == [included_plugins |-> {"TicketWebhookMCP"}]
llm_insert_filters == [included_plugins |-> {"DatabaseExecutor"}]
chat_filters == [excluded_plugins |-> {}]

\* the plugin each handler names as its own
HandlerPlugin ==
    [SearchAgent |-> "TicketSearch",
     ProcessorAgent |-> "TicketProcessor",
     WebhookAgent |-> "TicketWebhookMCP",
     LLMInsertAgent |-> "DatabaseExecutor"]

\* what get_chat_message_contents can do: raise, give no message, give a
\* message whose content is None or the empty string, give a message with text
LLMOutcomes == {"raise", "empty", "none_content", "empty_content", "text"}

\* str(result[0].content)
ResponseOf(llm) ==
    CASE llm = "none_content" -> Text("", "None")
      [] llm = "empty_content" -> Text("", "")
      [] OTHER -> Text("", "answer")

\* the end of SearchAgentExecutor, ProcessorAgentExecutor and
\* WebhookAgentExecutor.execute: no except clause around the call
execute_unguarded(llm, failure) ==
    IF llm = "raise" THEN Propagated
    ELSE IF llm = "empty" THEN Text(ErrorMarker, failure)
    ELSE ResponseOf(llm)

\* the end of LLMInsertAgentExecutor.execute: try/except around the call
execute_guarded(llm, failure) ==
    IF llm = "raise" THEN Text(ErrorMarker, "Erro ao processar")
    ELSE IF llm = "empty" THEN Text(ErrorMarker, failure)
    ELSE ResponseOf(llm)

\* the end of chat: every failure becomes HTTPException(500)
chat_response(llm) ==
    IF llm \in {"raise", "empty"} THEN [kind |-> "http_500"]
    ELSE ResponseOf(llm)

NoExec == [caller |-> "none"]

\* the seconds an await is bounded by when it is not under asyncio.wait_for
NoTimeout == 0

\* llmCalls after one more LLM call with tool calling enabled: the call is
\* awaited directly, with no timeout around it
Logged(caller, filters) ==
    llmCalls \cup {[caller |-> caller, tools |-> Advertised(plugins, filters),
                    timeout |-> NoTimeout]}

\* execute() of a handler up to its LLM call, with the chat_history a caller
\* passes left aside: the handler builds a new ChatHistory with its system
\* message and user_message, and enables tool calling
agent_context_shared(caller, user_message, shared) ==
    [messages |-> Append(shared, UserMessage(user_message, 0)),
     history |-> Fresh, tools |-> "auto",
     shared |-> Append(shared, UserMessage(user_message, 0))]

agent_context(caller, user_message, shared) ==
    [messages |-> <<SystemMessage(caller), UserMessage(user_message, 0)>>,
     history |-> Fresh, tools |-> "auto", shared |-> shared]

\* the handler is given the shared conversation and makes its LLM call
OwnContext(caller) ==
    \E user_message \in UserTexts :
        LET out == agent_context(caller, user_message, histories[chat_history])
        IN  /\ lastContext' = Context(caller, out.history, out.messages, out.tools)
            /\ histories' = [histories EXCEPT ![chat_history] = out.shared]

SearchExecute ==
    /\ appState = "serving"
    /\ \E llm \in LLMOutcomes :
          lastExec' = [caller |-> "SearchAgent", llm |-> llm,
                       result |-> execute_unguarded(llm, "Nao foi possivel buscar")]
    /\ llmCalls' = Logged("SearchAgent", search_filters)
    /\ OwnContext("SearchAgent")
    /\ UNCHANGED <<appState, plugins, lifespanLog, routerVars, storeVars, mcpVars,
                   dbVars, callsLeft, hostVars, chat_history, requests>>

ProcessorExecute ==
    /\ appState = "serving"
    /\ \E llm \in LLMOutcomes :
          lastExec' = [caller |-> "ProcessorAgent", llm |-> llm,
                       result |-> execute_unguarded(llm, "Nao foi possivel processar")]
    /\ llmCalls' = Logged("ProcessorAgent", processor_filters)
    /\ OwnContext("ProcessorAgent")
    /\ UNCHANGED <<appState, plugins, lifespanLog, routerVars, storeVars, mcpVars,
                   dbVars, callsLeft, hostVars, chat_history, requests>>

WebhookExecute ==
    /\ appState = "serving"
    /\ \E llm \in LLMOutcomes :
          lastExec' = [caller |-> "WebhookAgent", llm |-> llm,
                       result |-> execute_unguarded(llm, "Nao foi possivel enviar")]
    /\ llmCalls' = Logged("WebhookAgent", webhook_filters)
    /\ OwnContext("WebhookAgent")
    /\ UNCHANGED <<appState, plugins, lifespanLog, routerVars, storeVars, mcpVars,
                   dbVars, callsLeft, hostVars, chat_history, requests>>

LLMInsertExecute ==
    /\ appState = "serving"
    /\ \E llm \in LLMOutcomes :
          lastExec' = [caller |-> "LLMInsertAgent", llm |-> llm,
                       result |-> execute_guarded(llm, "Nenhuma resposta gerada")]
    /\ llmCalls' = Logged("LLMInsertAgent", llm_insert_filters)
    /\ OwnContext("LLMInsertAgent")
    /\ UNCHANGED <<appState, plugins, lifespanLog, routerVars, storeVars, mcpVars,
                   dbVars, callsLeft, hostVars, chat_history, requests>>

(***************************************************************************)
(* The shared conversation: POST /chat and POST /chat/reset (main.py).     *)
(***************************************************************************)
MaxLog == 5         \* most messages in one ChatHistory
MaxResets == 1      \* most calls of /chat/reset in one run

\* the /chat requests that can be in flight together
Requests == {1, 2}

Idle == [pc |-> "idle"]

\* a request at its await: the ChatHistory object it passed to the LLM call
\* and the place of its user message in it
Awaiting(history, at) == [pc |-> "awaiting", history |-> history, at |-> at]

Awaited == {r \in DOMAIN requests : requests[r].pc = "awaiting"}

\* request.message
ChatText == "m1"

\* chat() up to its await: the user message is added to the shared history
chat_receive(log, message, r) == Append(log, UserMessage(message, r))

\* chat() after its await, undoing its user message when the call failed
chat_return_rollback(log, llm, r) ==
    IF chat_response(llm).kind = "http_500"
    THEN SubSeq(log, 1, Len(log) - 1)
    ELSE Append(log, AssistantMessage("response_text", r))

\* chat() after its await: the reply is added to the history the global
\* refers to now; a failure leaves the history as it is
chat_return(log, llm, r) ==
    IF chat_response(llm).kind = "http_500"
    THEN log
    ELSE Append(log, AssistantMessage("response_text", r))

\* a request can only start while the histories have room for its messages
\* and for the replies still awaited
Room == Len(histories[chat_history]) + Cardinality(Awaited) + 2 <= MaxLog

\* POST /chat served with no other request during its await: one LLM call
\* on the shared history with every registered plugin advertised; neither
\* the router nor a handler is run
Chat ==
    /\ appState = "serving"
    /\ Awaited = {}
    /\ Room
    /\ \E r \in DOMAIN requests, llm \in LLMOutcomes :
          /\ lastExec' = [caller |-> "chat", llm |-> llm,
                          agents_run |-> <<>>,
                          result |-> chat_response(llm)]
          /\ lastContext' = Context("chat", chat_history,
                                    chat_receive(histories[chat_history], ChatText, r),
                                    "auto")
          /\ histories' = [histories EXCEPT ![chat_history] =
                              chat_return(chat_receive(@, ChatText, r), llm, r)]
    /\ llmCalls' = Logged("chat", chat_filters)
    /\ UNCHANGED <<appState, plugins, lifespanLog, routerVars, storeVars, mcpVars,
                   dbVars, callsLeft, hostVars, chat_history, requests>>

\* POST /chat of request r up to the await of its LLM call
ChatReceive(r) ==
    /\ appState = "serving"
    /\ requests[r].pc = "idle"
    /\ Room
    /\ histories' = [histories EXCEPT ![chat_history] = chat_receive(@, ChatText, r)]
    /\ requests' = [requests EXCEPT ![r] =
                       Awaiting(chat_history, Len(histories[chat_history]) + 1)]
    /\ lastContext' = Context("chat", chat_history, histories'[chat_history], "auto")
    /\ llmCalls' = Logged("chat", chat_filters)
    /\ UNCHANGED <<appState, plugins, lastExec, lifespanLog, routerVars, storeVars,
                   mcpVars, dbVars, callsLeft, hostVars, chat_history>>

\* POST /chat of request r from the end of its LLM call on
ChatReturn(r) ==
    /\ requests[r].pc = "awaiting"
    /\ \E llm \in LLMOutcomes :
          /\ lastExec' = [caller |-> "chat", llm |-> llm,
                          agents_run |-> <<>>,
                          result |-> chat_response(llm)]
          /\ histories' = [histories EXCEPT ![chat_history] = chat_return(@, llm, r)]
    /\ requests' = [requests EXCEPT ![r] = Idle]
    /\ UNCHANGED <<appState, plugins, llmCalls, lifespanLog, routerVars, storeVars,
                   mcpVars, dbVars, callsLeft, hostVars, chat_history, lastContext>>

\* reset_chat: the global is bound to a new ChatHistory, which gets the
\* system message; the old object stays with the calls that hold it
reset_chat(hs) ==
    [histories |-> Append(hs, <<SystemMessage("main")>>),
     chat_history |-> Len(hs) + 1]

\* POST /chat/reset
ResetChat ==
    /\ Len(histories) <= MaxResets
    /\ histories' = reset_chat(histories).histories
    /\ chat_history' = reset_chat(histories).chat_history
    /\ UNCHANGED <<requests, lastContext, routerVars, storeVars, toolVars, mcpVars,
                   dbVars, callsLeft, hostVars>>

(***************************************************************************)
(* MCPTicketClient: the session with the tool host over stdio.             *)
(***************************************************************************)
MaxSpawns == 2      \* transports connect() may create in one run
MaxHostCalls == 2   \* call_tool requests counted in one run

\* the value of a field that holds no object; the objects are numbered from 1
None == 0

\* a call that returned instead of raising
NoException == "none"

\* MCPTicketClient.__init__
NewClient == [session |-> None, context_manager |-> None]

\* the client and what it has opened: its fields, the sessions entered, the
\* transports spawned, the transports created so far
NewWorld == [self |-> NewClient, sessions |-> {}, transports |-> {}, spawned |-> 0]

\* how far connect() gets: the server file is missing, stdio_client's
\* __aenter__ times out or raises, the session's __aenter__ raises,
\* initialize times out or raises, list_tools fails (only warned), all good
ConnectOutcomes ==
    {"no_server_file", "stream_timeout", "stream_error", "session_error",
     "initialize_timeout", "initialize_error", "tools_failed", "ok"}

\* the awaits of connect() and the seconds each is bounded by
ConnectAwaits ==
    <<[await |-> "stdio_client.__aenter__", timeout |-> 10],
      [await |-> "session.__aenter__", timeout |-> NoTimeout],
      [await |-> "session.initialize", timeout |-> 5],
      [await |-> "session.list_tools", timeout |-> 5]>>

\* the awaits connect() reaches when it ends with io
ConnectSteps(io) ==
    CASE io = "no_server_file" -> <<>>
      [] io \in {"stream_timeout", "stream_error"} -> SubSeq(ConnectAwaits, 1, 1)
      [] io = "session_error" -> SubSeq(ConnectAwaits, 1, 2)
      [] io \in {"initialize_timeout", "initialize_error"} -> SubSeq(ConnectAwaits, 1, 3)
      [] OTHER -> ConnectAwaits

\* MCPTicketClient.connect: every failure is logged and raised again; the
\* fields assigned before the failure keep their values
connect(w, io) ==
    LET id == w.spawned + 1
        created == [w EXCEPT !.self.context_manager = id, !.spawned = id]
        streamed == [created EXCEPT !.transports = @ \cup {id}]
        assigned == [streamed EXCEPT !.self.session = id]
        entered == [assigned EXCEPT !.sessions = @ \cup {id}]
    IN  CASE io = "no_server_file" -> [world |-> w, raised |-> "FileNotFoundError"]
          [] io = "stream_timeout" -> [world |-> created, raised |-> "TimeoutError"]
          [] io = "stream_error" -> [world |-> created, raised |-> "Exception"]
          [] io = "session_error" -> [world |-> assigned, raised |-> "Exception"]
          [] io = "initialize_timeout" -> [world |-> entered, raised |-> "TimeoutError"]
          [] io = "initialize_error" -> [world |-> entered, raised |-> "Exception"]
          [] OTHER -> [world |-> entered, raised |-> NoException]

\* what the two __aexit__ calls of disconnect() can do
DisconnectOutcomes == {"ok", "session_exit_error", "transport_exit_error"}

\* MCPTicketClient.disconnect: one try block around both teardowns, the
\* except clause only logs; a teardown that raises skips what follows it
disconnect(w, io) ==
    LET s == w.self.session
        afterSession ==
            IF s = None THEN w
            ELSE [w EXCEPT !.self.session = None, !.sessions = @ \ {s}]
        t == afterSession.self.context_manager
        afterTransport ==
            IF t = None THEN afterSession
            ELSE [afterSession EXCEPT !.self.context_manager = None,
                                      !.transports = @ \ {t}]
    IN  IF s # None /\ io = "session_exit_error"
        THEN [world |-> w, raised |-> NoException]
        ELSE IF t # None /\ io = "transport_exit_error"
        THEN [world |-> afterSession, raised |-> NoException]
        ELSE [world |-> afterTransport, raised |-> NoException]

\* what session.call_tool under asyncio.wait_for can do: an answer with
\* content, an answer without content, a timeout, any other exception
ToolOutcomes == {"content", "empty", "timeout", "error"}

NotConnectedText == Text(ErrorMarker, "Cliente MCP nao esta conectado")

\* the result of a tool function: the text returned, and whether a
\* call_tool request went to the tool host
ToolResult(issued, text) == [issued |-> issued, text |-> text]

\* the same part without the except clause for asyncio.TimeoutError
AfterCallToolTimeoutRaised(io, empty, timeout, error) ==
    CASE io = "content" -> ToolResult(TRUE, Text("", "response_text"))
      [] io = "empty" -> ToolResult(TRUE, Text("check_mark", empty))
      [] io = "timeout" -> ToolResult(TRUE, Propagated)
      [] OTHER -> ToolResult(TRUE, Text(ErrorMarker, error))

\* the part the three tool functions share after the session check
AfterCallTool(io, empty, timeout, error) ==
    CASE io = "content" -> ToolResult(TRUE, Text("", "response_text"))
      [] io = "empty" -> ToolResult(TRUE, Text("check_mark", empty))
      [] io = "timeout" -> ToolResult(TRUE, Text(ErrorMarker, timeout))
      [] OTHER -> ToolResult(TRUE, Text(ErrorMarker, error))

send_ticket_webhook_unchecked(self, io) ==
    AfterCallTool(io, "Webhook enviado", "Timeout ao enviar webhook",
                  "Erro ao enviar webhook via MCP")

\* MCPTicketClient.send_ticket_webhook
send_ticket_webhook(self, io) ==
    IF self.session = None THEN ToolResult(FALSE, NotConnectedText)
    ELSE AfterCallTool(io, "Webhook enviado", "Timeout ao enviar webhook",
                       "Erro ao enviar webhook via MCP")

\* the metadata argument: the default, a JSON text, a text json.loads rejects
MetadataTexts == {"{}", "valid_json", "invalid_json"}

\* MCPTicketClient.send_custom_webhook
send_custom_webhook(self, metadata, io) ==
    IF self.session = None THEN ToolResult(FALSE, NotConnectedText)
    ELSE IF metadata = "invalid_json"
    THEN ToolResult(FALSE, Text(ErrorMarker, "metadata deve ser um JSON valido"))
    ELSE AfterCallTool(io, "Webhook customizado enviado",
                       "Timeout ao enviar webhook customizado",
                       "Erro ao enviar webhook customizado via MCP")

\* MCPTicketClient.check_webhook_health
check_webhook_health(self, io) ==
    IF self.session = None THEN ToolResult(FALSE, NotConnectedText)
    ELSE AfterCallTool(io, "Webhook verificado", "Timeout ao verificar webhook",
                       "Erro ao verificar webhook via MCP")

World == [self |-> mcpSelf, sessions |-> liveSessions,
          transports |-> liveTransports, spawned |-> spawned]

NoTool == [tool |-> "none"]

Connect ==
    /\ spawned < MaxSpawns
    /\ \E io \in ConnectOutcomes :
          LET out == connect(World, io)
          IN  /\ mcpSelf' = out.world.self
              /\ liveSessions' = out.world.sessions
              /\ liveTransports' = out.world.transports
              /\ spawned' = out.world.spawned
              /\ lastTool' = [tool |-> "connect", io |-> io,
                              awaits |-> ConnectSteps(io),
                              raised |-> out.raised]
    /\ UNCHANGED <<hostCalls, routerVars, storeVars, toolVars, dbVars, callsLeft, hostVars, chatVars>>

Disconnect ==
    /\ \E io \in DisconnectOutcomes :
          LET out == disconnect(World, io)
          IN  /\ mcpSelf' = out.world.self
              /\ liveSessions' = out.world.sessions
              /\ liveTransports' = out.world.transports
              /\ lastTool' = [tool |-> "disconnect", io |-> io,
                              raised |-> out.raised]
    /\ UNCHANGED <<spawned, hostCalls, routerVars, storeVars, toolVars, dbVars, callsLeft, hostVars, chatVars>>

SendTicketWebhook ==
    /\ callsLeft # "none"
    /\ callsLeft' = Spent
    /\ hostCalls < MaxHostCalls
    /\ \E io \in ToolOutcomes :
          LET out == send_ticket_webhook(mcpSelf, io)
          IN  /\ hostCalls' = IF out.issued THEN hostCalls + 1 ELSE hostCalls
              /\ lastTool' = [tool |-> "send_ticket_webhook", self |-> mcpSelf,
                              io |-> io, result |-> out]
    /\ UNCHANGED <<mcpSelf, liveSessions, liveTransports, spawned,
                   routerVars, storeVars, toolVars, dbVars, hostVars, chatVars>>

SendCustomWebhook ==
    /\ callsLeft # "none"
    /\ callsLeft' = Spent
    /\ hostCalls < MaxHostCalls
    /\ \E io \in ToolOutcomes, metadata \in MetadataTexts :
          LET out == send_custom_webhook(mcpSelf, metadata, io)
          IN  /\ hostCalls' = IF out.issued THEN hostCalls + 1 ELSE hostCalls
              /\ lastTool' = [tool |-> "send_custom_webhook", self |-> mcpSelf,
                              io |-> io, result |-> out]
    /\ UNCHANGED <<mcpSelf, liveSessions, liveTransports, spawned,
                   routerVars, storeVars, toolVars, dbVars, hostVars, chatVars>>

CheckWebhookHealth ==
    /\ callsLeft # "none"
    /\ callsLeft' = Spent
    /\ hostCalls < MaxHostCalls
    /\ \E io \in ToolOutcomes :
          LET out == check_webhook_health(mcpSelf, io)
          IN  /\ hostCalls' = IF out.issued THEN hostCalls + 1 ELSE hostCalls
              /\ lastTool' = [tool |-> "check_webhook_health", self |-> mcpSelf,
                              io |-> io, result |-> out]
    /\ UNCHANGED <<mcpSelf, liveSessions, liveTransports, spawned,
                   routerVars, storeVars, toolVars, dbVars, hostVars, chatVars>>

(***************************************************************************)
(* The read-only ticket tools and the database tools.                      *)
(***************************************************************************)
\* how reading the store can go: the file is there and well formed, it is
\* missing, its rows lack the columns the function reads
ReadOutcomes == {"ok", "missing", "malformed"}

\* the index of the first record with the number looked for, 0 if none
FirstTarget(csv, ticket_number) ==
    IF \E i \in 1..Len(csv) : IsTarget(csv[i], ticket_number)
    THEN CHOOSE i \in 1..Len(csv) :
            /\ IsTarget(csv[i], ticket_number)
            /\ \A j \in 1..(i - 1) : ~IsTarget(csv[j], ticket_number)
    ELSE 0

\* search_ticket without its except clauses
search_ticket_no_except(csv, io, ticket_number) ==
    IF io = "missing" \/ (io = "malformed" /\ csv # <<>>) THEN Propagated
    ELSE IF FirstTarget(csv, ticket_number) = 0
    THEN Text(ErrorMarker, "Ticket nao encontrado no sistema")
    ELSE Text("ticket", csv[FirstTarget(csv, ticket_number)])

\* TicketSearchPlugin.search_ticket
search_ticket(csv, io, ticket_number) ==
    IF io = "missing" THEN Text(ErrorMarker, "Arquivo de tickets nao encontrado")
    ELSE IF io = "malformed" /\ csv # <<>>
    THEN Text(ErrorMarker, "Erro ao buscar ticket")
    ELSE IF FirstTarget(csv, ticket_number) = 0
    THEN Text(ErrorMarker, "Ticket nao encontrado no sistema")
    ELSE Text("ticket", csv[FirstTarget(csv, ticket_number)])

\* TicketSearchPlugin.list_all_tickets
list_all_tickets(csv, io) ==
    IF io = "missing" \/ (io = "malformed" /\ csv # <<>>)
    THEN Text(ErrorMarker, "Erro ao listar tickets")
    ELSE IF csv = <<>> THEN Text("list", "Nenhum ticket encontrado")
    ELSE Text("list", csv)

\* TicketProcessorPlugin.list_pending_tickets
list_pending_tickets(csv, io) ==
    IF io = "missing" \/ (io = "malformed" /\ csv # <<>>)
    THEN Text(ErrorMarker, "Erro ao listar tickets pendentes")
    ELSE IF SelectSeq(csv, LAMBDA t : IsPending(t.status)) = <<>>
    THEN Text("list", "Nenhum ticket pendente encontrado")
    ELSE Text("list", SelectSeq(csv, LAMBDA t : IsPending(t.status)))

\* how a statement sent to the database can go: rows come back, no row
\* comes back, the server rejects it, command_timeout expires
SqlOutcomes == {"rows", "no_rows", "sql_error", "timeout"}

\* DatabaseManager.acquire and the statement: an exception when the pool was
\* never created or the statement fails
DbRaises(pool, io) == pool = None \/ io \in {"sql_error", "timeout"}

\* DatabaseExecutorPlugin.execute_sql
execute_sql(pool, io) ==
    IF DbRaises(pool, io) THEN Text(ErrorMarker, "Erro ao executar SQL")
    ELSE Text("check_mark", "SQL executado com sucesso")

\* DatabaseExecutorPlugin.execute_query: fetch for a statement with SELECT or
\* RETURNING in it, execute for any other
execute_query(pool, is_select, io) ==
    IF DbRaises(pool, io) THEN Text(ErrorMarker, "Erro ao executar query")
    ELSE IF ~is_select THEN Text("check_mark", "Comando executado com sucesso")
    ELSE IF io = "no_rows"
    THEN Text("check_mark", "Query executada, mas nao retornou dados")
    ELSE Text("check_mark", "Query executada com sucesso")

\* DatabaseExecutorPlugin.check_table_exists
check_table_exists(pool, io) ==
    IF DbRaises(pool, io) THEN Text(ErrorMarker, "Erro")
    ELSE IF io = "rows" THEN Text("check_mark", "Tabela existe")
    ELSE Text(ErrorMarker, "Tabela NAO existe")

NoDb == [op |-> "none"]

\* lastCall after a tool that only reads the store
Read(op, ticket_number, io, text) ==
    [op |-> op, ticket_number |-> ticket_number, csv |-> store,
     files |-> backups, now |-> clock, io |-> io, text |-> text]

SearchTicket ==
    /\ callsLeft # "none"
    /\ callsLeft' = Spent
    /\ \E ticket_number \in CallNumbers, io \in FileOutcomes(ReadOutcomes) :
          lastCall' = Read("search_ticket", ticket_number, io,
                           search_ticket(store, io, ticket_number))
    /\ UNCHANGED <<store, backups, clock, fileFaults, routerVars, toolVars,
                   mcpVars, dbVars, hostVars, chatVars>>

ListAllTickets ==
    /\ callsLeft # "none"
    /\ callsLeft' = Spent
    /\ \E io \in FileOutcomes(ReadOutcomes) :
          lastCall' = Read("list_all_tickets", <<>>, io, list_all_tickets(store, io))
    /\ UNCHANGED <<store, backups, clock, fileFaults, routerVars, toolVars,
                   mcpVars, dbVars, hostVars, chatVars>>

ListPendingTickets ==
    /\ callsLeft # "none"
    /\ callsLeft' = Spent
    /\ \E io \in FileOutcomes(ReadOutcomes) :
          lastCall' = Read("list_pending_tickets", <<>>, io,
                           list_pending_tickets(store, io))
    /\ UNCHANGED <<store, backups, clock, fileFaults, routerVars, toolVars,
                   mcpVars, dbVars, hostVars, chatVars>>

ExecuteSql ==
    /\ callsLeft # "none"
    /\ callsLeft' = Spent
    /\ \E io \in SqlOutcomes :
          lastDb' = [op |-> "execute_sql", pool |-> dbPool, io |-> io,
                     text |-> execute_sql(dbPool, io)]
    /\ UNCHANGED <<dbPool, routerVars, storeVars, toolVars, mcpVars, hostVars, chatVars>>

ExecuteQuery ==
    /\ callsLeft # "none"
    /\ callsLeft' = Spent
    /\ \E io \in SqlOutcomes, is_select \in BOOLEAN :
          lastDb' = [op |-> "execute_query", pool |-> dbPool, io |-> io,
                     text |-> execute_query(dbPool, is_select, io)]
    /\ UNCHANGED <<dbPool, routerVars, storeVars, toolVars, mcpVars, hostVars, chatVars>>

CheckTableExists ==
    /\ callsLeft # "none"
    /\ callsLeft' = Spent
    /\ \E io \in SqlOutcomes :
          lastDb' = [op |-> "check_table_exists", pool |-> dbPool, io |-> io,
                     text |-> check_table_exists(dbPool, io)]
    /\ UNCHANGED <<dbPool, routerVars, storeVars, toolVars, mcpVars, hostVars, chatVars>>

(***************************************************************************)
(* TicketMCPServer: the tool host and the webhook requests it sends.       *)
(***************************************************************************)
\* a dict restricted to some of its keys
Restrict(d, keys) == [k \in keys |-> d[k]]

\* {**a, **b}: the keys of both, the value of b where both have the key
Merge(a, b) ==
    [k \in DOMAIN a \cup DOMAIN b |-> IF k \in DOMAIN b THEN b[k] ELSE a[k]]

\* d.get(key, default)
Get(d, key, default) == IF key \in DOMAIN d THEN d[key] ELSE default

\* the metadata dicts enumerated: any of three entries, two of them named
\* like the fields of the body
MetaDicts ==
    {Restrict([ticket_number |-> "TKT-9", status |-> "pending", note |-> "n"], keys) :
        keys \in SUBSET {"ticket_number", "status", "note"}}

\* the arguments enumerated: each of the three keys given or not
Arguments ==
    {Restrict([ticket_number |-> tn, status |-> st, metadata |-> md], keys) :
        tn \in {"", "TKT-1"}, st \in {"done", "cancelled"}, md \in MetaDicts,
        keys \in SUBSET {"ticket_number", "status", "metadata"}}

HostToolNames ==
    {"send_ticket_notification", "send_custom_webhook", "check_webhook_status",
     "unknown_tool"}

\* how the HTTP request can go: a status code, a timeout, any other error
HttpOutcomes == {"200", "201", "500", "timeout", "error"}

NoHostCall == [name |-> "none"]
NoPost == [sent |-> FALSE]
NoHostText == [kind |-> "none"]

Posted(method, body, timeout) ==
    [sent |-> TRUE, method |-> method, body |-> body, timeout |-> timeout]

HostAnswer(posted, text) == [posted |-> posted, text |-> text]

\* what the host answers after its POST ended with http; only the plain
\* notification has a text of its own for a timeout
AfterPost(http, timeout_text) ==
    CASE http \in {"200", "201"} -> Text("check_mark", "Webhook Enviado")
      [] http = "500" -> Text("warning", "Webhook enviado com aviso")
      [] http = "timeout" -> Text(ErrorMarker, timeout_text)
      [] OTHER -> Text(ErrorMarker, "Erro")

\* TicketMCPServer._send_ticket_notification; a missing ticket_number is
\* None, which `not` treats like the empty text
SendTicketNotification(args, http) ==
    LET ticket_number == Get(args, "ticket_number", "")
        payload == [ticket_number |-> ticket_number, status |-> "done"]
    IN  IF ticket_number = ""
        THEN HostAnswer(NoPost, Text(ErrorMarker, "ticket_number e obrigatorio"))
        ELSE HostAnswer(Posted("POST", payload, 10), AfterPost(http, "Timeout ao enviar webhook"))

\* TicketMCPServer._send_custom_webhook
SendCustomWebhookHost(args, http) ==
    LET ticket_number == Get(args, "ticket_number", "")
        status == Get(args, "status", "done")
        metadata == Get(args, "metadata", <<>>)
        payload == Merge([ticket_number |-> ticket_number, status |-> status],
                         metadata)
    IN  IF ticket_number = ""
        THEN HostAnswer(NoPost, Text(ErrorMarker, "ticket_number e obrigatorio"))
        ELSE HostAnswer(Posted("POST", payload, 10), AfterPost(http, "Erro"))

\* TicketMCPServer._check_webhook_status
CheckWebhookStatus(http) ==
    HostAnswer(Posted("GET", <<>>, 5),
               IF http \in {"timeout", "error"}
               THEN Text(ErrorMarker, "Webhook inacessivel")
               ELSE Text("status", http))

\* the call_tool handler of the tool host
call_tool(name, arguments, http) ==
    CASE name = "send_ticket_notification" -> SendTicketNotification(arguments, http)
      [] name = "send_custom_webhook" -> SendCustomWebhookHost(arguments, http)
      [] name = "check_webhook_status" -> CheckWebhookStatus(http)
      [] OTHER -> HostAnswer(NoPost, Text(ErrorMarker, "Ferramenta nao encontrada"))

CallTool ==
    /\ hostText = NoHostText
    /\ \E http \in HttpOutcomes :
          LET out == call_tool(hostCall.name, hostCall.arguments, http)
          IN  /\ hostPosted' = out.posted
              /\ hostText' = out.text
    /\ UNCHANGED <<hostCall, routerVars, storeVars, toolVars, mcpVars, dbVars,
                   callsLeft, chatVars>>

(***************************************************************************)
(* main.lifespan: the startup of the application and its cleanup.          *)
(***************************************************************************)
NoLifespan == [connect |-> "none"]

\* the try block of lifespan up to the yield, without the finally clause
lifespan_no_cleanup(w, io, api_key, exit_io) ==
    LET c == connect([w EXCEPT !.self = NewClient], io)
        error == IF c.raised # NoException THEN c.raised
                 ELSE IF ~api_key THEN "ValueError"
                 ELSE NoException
    IN  [app |-> IF error = NoException THEN "serving" ELSE "aborted",
         plugins |-> IF error = NoException THEN StartupPlugins ELSE {},
         world |-> c.world,
         log |-> [connect |-> io, connect_raised |-> c.raised, raised |-> error,
                  awaits |-> ConnectSteps(io),
                  disconnect_called |-> FALSE, exit_io |-> exit_io]]

\* lifespan up to the yield: the client is created and connected, the
\* kernel gets its service and plugins; an exception before the yield is
\* logged and raised again, and the finally clause disconnects the client
lifespan(w, io, api_key, exit_io) ==
    LET c == connect([w EXCEPT !.self = NewClient], io)
        error == IF c.raised # NoException THEN c.raised
                 ELSE IF ~api_key THEN "ValueError"
                 ELSE NoException
        log == [connect |-> io, connect_raised |-> c.raised, raised |-> error,
                awaits |-> ConnectSteps(io),
                disconnect_called |-> error # NoException, exit_io |-> exit_io]
    IN  IF error = NoException
        THEN [app |-> "serving", plugins |-> StartupPlugins, world |-> c.world,
              log |-> log]
        ELSE [app |-> "aborted", plugins |-> {},
              world |-> disconnect(c.world, exit_io).world, log |-> log]

Lifespan ==
    /\ appState = "starting"
    /\ \E io \in ConnectOutcomes, api_key \in BOOLEAN, exit_io \in DisconnectOutcomes :
          LET out == lifespan(World, io, api_key, exit_io)
          IN  /\ appState' = out.app
              /\ plugins' = out.plugins
              /\ lifespanLog' = out.log
              /\ mcpSelf' = out.world.self
              /\ liveSessions' = out.world.sessions
              /\ liveTransports' = out.world.transports
              /\ spawned' = out.world.spawned
              /\ histories' = IF out.app = "serving"
                              THEN [histories EXCEPT ![chat_history] =
                                       Append(@, SystemMessage("main"))]
                              ELSE histories
    /\ UNCHANGED <<llmCalls, lastExec, hostCalls, lastTool, routerVars, storeVars,
                   dbVars, callsLeft, hostVars, chat_history, requests, lastContext>>

\* lifespan after the yield: the finally clause disconnects the client
Shutdown ==
    /\ appState = "serving"
    /\ \E exit_io \in DisconnectOutcomes :
          LET out == disconnect(World, exit_io)
          IN  /\ mcpSelf' = out.world.self
              /\ liveSessions' = out.world.sessions
              /\ liveTransports' = out.world.transports
    /\ appState' = "stopped"
    /\ UNCHANGED <<plugins, llmCalls, lastExec, lifespanLog, spawned, hostCalls,
                   lastTool, routerVars, storeVars, dbVars, callsLeft, hostVars, chatVars>>

(***************************************************************************)
(* The specifications: the router, the ticket store, the tool sets.        *)
(***************************************************************************)
InitRouter ==
    /\ routeReply \in Replies
    /\ routeResult = NoReply
    /\ store = <<>> /\ backups = <<>> /\ clock = 1 /\ fileFaults = FALSE /\ lastCall = NoCall
    /\ appState = "starting" /\ plugins = {} /\ llmCalls = {} /\ lastExec = NoExec
    /\ lifespanLog = NoLifespan
    /\ mcpSelf = NewClient /\ liveSessions = {} /\ liveTransports = {}
    /\ spawned = 0 /\ hostCalls = 0 /\ lastTool = NoTool
    /\ dbPool = None /\ lastDb = NoDb /\ callsLeft = "any"
    /\ hostCall = NoHostCall /\ hostPosted = NoPost /\ hostText = NoHostText
    /\ histories = <<<<>>>> /\ chat_history = 1
    /\ requests = [r \in {1} |-> Idle] /\ lastContext = NoContext

InitStore ==
    /\ store \in SeqsUpTo(Tickets, MaxTickets)
    /\ backups = <<>>
    /\ clock = 1
    /\ fileFaults = FALSE
    /\ lastCall = NoCall
    /\ routeReply = NoReply /\ routeResult = NoReply
    /\ appState = "starting" /\ plugins = {} /\ llmCalls = {} /\ lastExec = NoExec
    /\ lifespanLog = NoLifespan
    /\ mcpSelf = NewClient /\ liveSessions = {} /\ liveTransports = {}
    /\ spawned = 0 /\ hostCalls = 0 /\ lastTool = NoTool
    /\ dbPool = None /\ lastDb = NoDb /\ callsLeft = "any"
    /\ hostCall = NoHostCall /\ hostPosted = NoPost /\ hostText = NoHostText
    /\ histories = <<<<>>>> /\ chat_history = 1
    /\ requests = [r \in {1} |-> Idle] /\ lastContext = NoContext

InitTools ==
    /\ appState = "starting"
    /\ plugins = {}
    /\ llmCalls = {}
    /\ lastExec = NoExec
    /\ lifespanLog = NoLifespan
    /\ routeReply = NoReply /\ routeResult = NoReply
    /\ store = <<>> /\ backups = <<>> /\ clock = 1 /\ fileFaults = FALSE /\ lastCall = NoCall
    /\ mcpSelf = NewClient /\ liveSessions = {} /\ liveTransports = {}
    /\ spawned = 0 /\ hostCalls = 0 /\ lastTool = NoTool
    /\ dbPool = None /\ lastDb = NoDb /\ callsLeft = "any"
    /\ hostCall = NoHostCall /\ hostPosted = NoPost /\ hostText = NoHostText
    /\ histories = <<<<>>>> /\ chat_history = 1
    /\ requests = [r \in {1} |-> Idle] /\ lastContext = NoContext

SpecRouter == InitRouter /\ [][RouteRequest]_vars

NextStore == ProcessPendingTicket \/ Tick
SpecStore == InitStore /\ [][NextStore]_vars

NextTools ==
    \/ Lifespan
    \/ Shutdown
    \/ SearchExecute
    \/ ProcessorExecute
    \/ WebhookExecute
    \/ LLMInsertExecute
    \/ Chat
SpecTools == InitTools /\ [][NextTools]_vars

InitMcp ==
    /\ mcpSelf = NewClient /\ liveSessions = {} /\ liveTransports = {}
    /\ spawned = 0 /\ hostCalls = 0 /\ lastTool = NoTool
    /\ dbPool = None /\ lastDb = NoDb /\ callsLeft = "any"
    /\ hostCall = NoHostCall /\ hostPosted = NoPost /\ hostText = NoHostText
    /\ histories = <<<<>>>> /\ chat_history = 1
    /\ requests = [r \in {1} |-> Idle] /\ lastContext = NoContext
    /\ routeReply = NoReply /\ routeResult = NoReply
    /\ store = <<>> /\ backups = <<>> /\ clock = 1 /\ fileFaults = FALSE /\ lastCall = NoCall
    /\ appState = "starting" /\ plugins = {} /\ llmCalls = {} /\ lastExec = NoExec
    /\ lifespanLog = NoLifespan

NextMcp ==
    \/ Connect
    \/ Disconnect
    \/ SendTicketWebhook
    \/ SendCustomWebhook
    \/ CheckWebhookHealth
SpecMcp == InitMcp /\ [][NextMcp]_vars

\* one call of a tool function, on any store, with the client connected or
\* not and the pool created or not, under any failure of its I/O
InitToolFns ==
    /\ store \in SeqsUpTo(Tickets, MaxTickets)
    /\ backups = <<>> /\ clock = 1 /\ fileFaults = TRUE /\ lastCall = NoCall
    /\ mcpSelf \in {NewClient, [session |-> 1, context_manager |-> 1]}
    /\ liveSessions = (IF mcpSelf.session = None THEN {} ELSE {1})
    /\ liveTransports = (IF mcpSelf.session = None THEN {} ELSE {1})
    /\ spawned = (IF mcpSelf.session = None THEN 0 ELSE 1)
    /\ hostCalls = 0 /\ lastTool = NoTool
    /\ dbPool \in {None, 1} /\ lastDb = NoDb /\ callsLeft = "one"
    /\ hostCall = NoHostCall /\ hostPosted = NoPost /\ hostText = NoHostText
    /\ histories = <<<<>>>> /\ chat_history = 1
    /\ requests = [r \in {1} |-> Idle] /\ lastContext = NoContext
    /\ routeReply = NoReply /\ routeResult = NoReply
    /\ appState = "starting" /\ plugins = {} /\ llmCalls = {} /\ lastExec = NoExec
    /\ lifespanLog = NoLifespan

NextToolFns ==
    \/ SearchTicket
    \/ ListAllTickets
    \/ ProcessPendingTicket
    \/ ListPendingTickets
    \/ ExecuteSql
    \/ ExecuteQuery
    \/ CheckTableExists
    \/ SendTicketWebhook
    \/ SendCustomWebhook
    \/ CheckWebhookHealth
SpecToolFns == InitToolFns /\ [][NextToolFns]_vars

\* one call_tool request of any name with any arguments
InitHost ==
    /\ hostCall \in [name : HostToolNames, arguments : Arguments]
    /\ hostPosted = NoPost /\ hostText = NoHostText
    /\ routeReply = NoReply /\ routeResult = NoReply
    /\ store = <<>> /\ backups = <<>> /\ clock = 1 /\ fileFaults = FALSE
    /\ lastCall = NoCall
    /\ appState = "starting" /\ plugins = {} /\ llmCalls = {} /\ lastExec = NoExec
    /\ lifespanLog = NoLifespan
    /\ mcpSelf = NewClient /\ liveSessions = {} /\ liveTransports = {}
    /\ spawned = 0 /\ hostCalls = 0 /\ lastTool = NoTool
    /\ dbPool = None /\ lastDb = NoDb /\ callsLeft = "any"
    /\ histories = <<<<>>>> /\ chat_history = 1
    /\ requests = [r \in {1} |-> Idle] /\ lastContext = NoContext

SpecHost == InitHost /\ [][CallTool]_vars

\* the application after a startup in which nothing failed
Started == lifespan(NewWorld, "ok", TRUE, "ok")

\* the conversation: the application serves, two requests can be in flight
InitChat ==
    /\ appState = Started.app /\ plugins = Started.plugins
    /\ lifespanLog = Started.log
    /\ mcpSelf = Started.world.self
    /\ liveSessions = Started.world.sessions
    /\ liveTransports = Started.world.transports
    /\ spawned = Started.world.spawned
    /\ histories = <<<<SystemMessage("main")>>>> /\ chat_history = 1
    /\ requests = [r \in Requests |-> Idle] /\ lastContext = NoContext
    /\ llmCalls = {} /\ lastExec = NoExec /\ hostCalls = 0 /\ lastTool = NoTool
    /\ routeReply = NoReply /\ routeResult = NoReply
    /\ store = <<>> /\ backups = <<>> /\ clock = 1 /\ fileFaults = FALSE
    /\ lastCall = NoCall
    /\ dbPool = None /\ lastDb = NoDb /\ callsLeft = "any"
    /\ hostCall = NoHostCall /\ hostPosted = NoPost /\ hostText = NoHostText

NextChat ==
    \/ \E r \in DOMAIN requests : ChatReceive(r)
    \/ \E r \in DOMAIN requests : ChatReturn(r)
    \/ ResetChat
SpecChat == InitChat /\ [][NextChat]_vars

\* the replies to the routing call that are at most one character long
ShortReplies ==
    {reply \in Replies : reply.kind = "content" => Len(reply.content.text) <= 1}

\* the shared conversation a caller may hand to the router and the handlers
SharedLogs ==
    {<<SystemMessage("main")>>,
     <<SystemMessage("main"), UserMessage(ChatText, 1)>>,
     <<SystemMessage("main"), UserMessage(ChatText, 1),
       AssistantMessage("response_text", 1)>>}

\* the router and the handlers, called with a shared conversation
InitAgents ==
    /\ appState = Started.app /\ plugins = Started.plugins
    /\ lifespanLog = Started.log
    /\ mcpSelf = Started.world.self
    /\ liveSessions = Started.world.sessions
    /\ liveTransports = Started.world.transports
    /\ spawned = Started.world.spawned
    /\ histories \in {<<log>> : log \in SharedLogs} /\ chat_history = 1
    /\ requests = [r \in {1} |-> Idle] /\ lastContext = NoContext
    /\ llmCalls = {} /\ lastExec = NoExec /\ hostCalls = 0 /\ lastTool = NoTool
    /\ routeReply \in ShortReplies /\ routeResult = NoReply
    /\ store = <<>> /\ backups = <<>> /\ clock = 1 /\ fileFaults = FALSE
    /\ lastCall = NoCall
    /\ dbPool = None /\ lastDb = NoDb /\ callsLeft = "any"
    /\ hostCall = NoHostCall /\ hostPosted = NoPost /\ hostText = NoHostText

NextAgents ==
    \/ RouteRequest
    \/ SearchExecute
    \/ ProcessorExecute
    \/ WebhookExecute
    \/ LLMInsertExecute
SpecAgents == InitAgents /\ [][NextAgents]_vars

(***************************************************************************)
(* Properties of the router (SpecRouter).                                  *)
(***************************************************************************)
PlanKeys == {"primary_agent", "reasoning", "requires_multiple_agents", "agent_sequence"}

\* the text has a '{' with a '}' somewhere after it
HasRegion(text) ==
    \E i, j \in 1..Len(text) : i < j /\ text[i] = LB /\ text[j] = RB

\* from the first '{' to the last '}'
Region(text) ==
    LET i == CHOOSE a \in 1..Len(text) :
                 text[a] = LB /\ \A b \in 1..(a - 1) : text[b] # LB
        j == CHOOSE a \in 1..Len(text) :
                 text[a] = RB /\ \A b \in (a + 1)..Len(text) : text[b] # RB
    IN  SubSeq(text, i, j)

\* the LLM call raised, gave nothing, or gave a text without a parseable region
ReplyFails(reply) ==
    \/ reply.kind \in {"raise", "empty"}
    \/ /\ reply.kind = "content"
       /\ LET text == Str(reply.content)
          IN  \/ text = <<>>
              \/ ~HasRegion(text)
              \/ ~JsonOk(Region(text))

IsDefaultPlan(res) ==
    /\ res.kind = "return"
    /\ DOMAIN res.plan = PlanKeys
    /\ res.plan.primary_agent = "SearchAgent"
    /\ res.plan.agent_sequence = <<"SearchAgent">>
    /\ res.plan.requires_multiple_agents = FALSE

RouteDone == routeResult # NoReply

\* C1: for a reply that is empty, has no '{'...'}' region or whose region is
\* not parseable, and for an exception of the LLM call, route_request returns
\* the default plan (SearchAgent, [SearchAgent], not multiple); it never raises.
C1_FallbackOnBadReply ==
    RouteDone =>
        /\ routeResult.kind # "raise"
        /\ ReplyFails(routeReply) => IsDefaultPlan(routeResult)

\* a text with a region that does not parse was answered with the default plan
C1_Witness ==
    /\ RouteDone
    /\ routeReply.kind = "content"
    /\ HasRegion(Str(routeReply.content))
    /\ ~JsonOk(Region(Str(routeReply.content)))
    /\ IsDefaultPlan(routeResult)

\* C2: a returned plan with requires_multiple_agents = false has an
\* agent_sequence of exactly one element, which is primary_agent (stated for
\* the plans that carry an agent_sequence; C3 is about the missing key).
C2_SingleStepSequence ==
    (/\ RouteDone
     /\ routeResult.kind = "return"
     /\ "requires_multiple_agents" \in DOMAIN routeResult.plan
     /\ routeResult.plan.requires_multiple_agents = FALSE
     /\ "agent_sequence" \in DOMAIN routeResult.plan)
    => /\ Len(routeResult.plan.agent_sequence) = 1
       /\ routeResult.plan.agent_sequence[1] = routeResult.plan.primary_agent

\* C3: every returned plan carries primary_agent, reasoning,
\* requires_multiple_agents and agent_sequence, and agent_sequence is a
\* non-empty list.
C3_ValidRoutingPlan ==
    RouteDone =>
        /\ routeResult.kind = "return"
        /\ PlanKeys \subseteq DOMAIN routeResult.plan
        /\ routeResult.plan.agent_sequence # <<>>

\* C4: primary_agent and every element of agent_sequence of a returned plan
\* belong to the closed handler set.
C4_HandlersInClosedSet ==
    (RouteDone /\ routeResult.kind = "return") =>
        /\ routeResult.plan.primary_agent \in HandlerIds
        /\ "agent_sequence" \in DOMAIN routeResult.plan =>
               \A i \in 1..Len(routeResult.plan.agent_sequence) :
                   routeResult.plan.agent_sequence[i] \in HandlerIds

(***************************************************************************)
(* Properties of process_pending_ticket (SpecStore).                       *)
(***************************************************************************)
\* the last call was process_pending_ticket and its file operations worked
Processed == lastCall.op = "process_pending_ticket" /\ lastCall.io = "ok"

\* record i of the store the last call read has the number the call names
Targeted(i) ==
    Lower(lastCall.csv[i].ticket_number) = Lower(lastCall.ticket_number)

\* its stored status is pending, letter case aside
StoredPending(i) == Lower(lastCall.csv[i].status) = PENDING

\* the first targeted record that is not pending
FirstNotPending ==
    CHOOSE i \in 1..Len(lastCall.csv) :
        /\ Targeted(i) /\ ~StoredPending(i)
        /\ \A j \in 1..(i - 1) : ~(Targeted(j) /\ ~StoredPending(j))

RefusalLeavesStore ==
    (/\ Processed
     /\ \E i \in 1..Len(lastCall.csv) : Targeted(i) /\ ~StoredPending(i))
    => /\ store = lastCall.csv
       /\ backups = lastCall.files
       /\ lastCall.text =
              RefusedText(lastCall.ticket_number, lastCall.csv[FirstNotPending].status)

RefusalRepeats ==
    (/\ Processed
     /\ lastCall.text.kind = "refused"
     /\ lastCall'.op = "process_pending_ticket"
     /\ lastCall'.io = "ok"
     /\ lastCall'.ticket_number = lastCall.ticket_number)
    => /\ lastCall'.text = lastCall.text
       /\ store' = store
       /\ backups' = backups

\* C5: a call that targets a record whose status is not pending (letter case
\* aside, as the code compares) leaves the store and the backups as they were
\* and returns the refusal naming that record's status; the same call
\* repeated gives the same refusal and the same store.
C5_RefusalUnchanged == [][RefusalLeavesStore' /\ RefusalRepeats]_vars

\* a refusal although an earlier record of the same number was pending
C5_Witness ==
    /\ Processed
    /\ lastCall.text.kind = "refused"
    /\ Len(lastCall.csv) = 2
    /\ Targeted(1) /\ StoredPending(1)
    /\ Targeted(2) /\ ~StoredPending(2)
    /\ store = lastCall.csv

\* C6: a call that processes a pending record writes one backup holding the
\* prior store and leaves a store that differs from the prior one in exactly
\* one record, the targeted one, now 'solved', also when several records
\* share the ticket number.
C6_ExactlyOneRecordChanged ==
    (/\ Processed
     /\ lastCall.text.kind = "processed")
    => /\ \E i \in 1..Len(lastCall.csv) : Targeted(i) /\ StoredPending(i)
       /\ lastCall.now \in DOMAIN backups
       /\ backups[lastCall.now] = lastCall.csv
       /\ Len(store) = Len(lastCall.csv)
       /\ \E i \in 1..Len(store) :
             /\ Targeted(i)
             /\ store[i] # lastCall.csv[i]
             /\ store[i] = [lastCall.csv[i] EXCEPT !.status = SOLVED]
             /\ \A j \in 1..Len(store) : j # i => store[j] = lastCall.csv[j]

\* C7 as stated: a record changes only when its stored status is exactly
\* "pending"; a target with any other status, case variants included, is
\* refused and nothing changes.
C7_ExactPendingOnly ==
    Processed =>
        \A i \in 1..Len(lastCall.csv) :
            /\ store[i] # lastCall.csv[i] => lastCall.csv[i].status = PENDING
            /\ (Targeted(i) /\ lastCall.csv[i].status # PENDING)
                   => /\ lastCall.text.kind = "refused"
                      /\ store = lastCall.csv
                      /\ backups = lastCall.files

\* C7 amended: a record changes only when its stored status lower-cased is
\* "pending"; a target with any other status is refused and nothing changes.
C7_PendingAnyCaseOnly ==
    Processed =>
        \A i \in 1..Len(lastCall.csv) :
            /\ store[i] # lastCall.csv[i] =>
                   /\ Targeted(i)
                   /\ Lower(lastCall.csv[i].status) = PENDING
                   /\ store[i] = [lastCall.csv[i] EXCEPT !.status = SOLVED]
            /\ (Targeted(i) /\ Lower(lastCall.csv[i].status) # PENDING)
                   => /\ lastCall.text.kind = "refused"
                      /\ store = lastCall.csv
                      /\ backups = lastCall.files

\* a record stored as "Pending" was transitioned to solved
C7_Witness ==
    /\ Processed
    /\ \E i \in 1..Len(lastCall.csv) :
          /\ lastCall.csv[i].status = <<"P", "e", "n", "d", "i", "n", "g">>
          /\ store[i].status = SOLVED

(***************************************************************************)
(* Properties of the tool sets and of execute (SpecTools).                 *)
(***************************************************************************)
HandlerCalls == {c \in llmCalls : c.caller \in HandlerIds}

\* the tools a handler declares: those of the plugin its filter names
DeclaredTools(h) == {<<HandlerPlugin[h], f>> : f \in PluginFunctions[HandlerPlugin[h]]}

\* C8: the LLM call of each handler gets tools of its own plugin only, and
\* the tool sets of two different handlers have no tool in common.
C8_HandlerToolSetsDisjoint ==
    \A c \in HandlerCalls :
        /\ c.tools \subseteq DeclaredTools(c.caller)
        /\ \A d \in HandlerCalls : d.caller # c.caller => c.tools \cap d.tools = {}

\* the Search and the Process handler have both called the LLM with tools
C8_Witness ==
    \E c, d \in HandlerCalls :
        /\ c.caller = "SearchAgent" /\ c.tools # {}
        /\ d.caller = "ProcessorAgent" /\ d.tools # {}

\* C9: every tool-enabled LLM call exposes the tools of one handler only; no
\* call sees both a search tool and process_pending_ticket.
C9_EveryCallScoped ==
    \A c \in llmCalls :
        /\ \E h \in HandlerIds : c.tools \subseteq DeclaredTools(h)
        /\ ~(/\ <<"TicketSearch", "search_ticket">> \in c.tools
             /\ <<"TicketProcessor", "process_pending_ticket">> \in c.tools)

\* C10: execute() of each handler never raises; when the LLM call raises, the
\* handler returns a failure text that begins with the error marker.
C10_ExecuteNeverRaises ==
    lastExec.caller \in HandlerIds =>
        /\ lastExec.result.kind = "return"
        /\ lastExec.llm = "raise" => lastExec.result.marker = ErrorMarker

(***************************************************************************)
(* Properties of the MCP client (SpecMcp).                                 *)
(***************************************************************************)
ToolNames == {"send_ticket_webhook", "send_custom_webhook", "check_webhook_health"}

\* this step is a call of one of the three webhook tool functions
ToolCallStep == lastTool' # lastTool /\ lastTool'.tool \in ToolNames

\* C11: a webhook tool function called while the client holds no session
\* returns the not-connected failure text, sends no call_tool request to the
\* tool host, and neither connects nor touches the client
C11_NotConnectedNoHostCall ==
    [][(ToolCallStep /\ mcpSelf.session = None)
        => /\ lastTool'.result = ToolResult(FALSE, NotConnectedText)
           /\ hostCalls' = hostCalls
           /\ UNCHANGED <<mcpSelf, liveSessions, liveTransports, spawned>>]_vars

\* a tool function answered not-connected on a client that had connected
\* and disconnected before
C11_Witness ==
    /\ lastTool.tool = "send_ticket_webhook"
    /\ lastTool.self = NewClient
    /\ lastTool.result.text = NotConnectedText
    /\ spawned = 1
    /\ liveTransports = {}

\* C12: after disconnect() returns, whatever the teardown did, the client
\* holds neither a session nor a transport context, and disconnect() did
\* not raise
C12_DisconnectedAfterDisconnect ==
    lastTool.tool = "disconnect"
        => /\ mcpSelf.session = None
           /\ mcpSelf.context_manager = None
           /\ lastTool.raised = NoException

\* C13: the client never has two sessions open or two tool-host transports
\* spawned at the same time
C13_AtMostOneLive ==
    /\ Cardinality(liveSessions) <= 1
    /\ Cardinality(liveTransports) <= 1

(***************************************************************************)
(* Properties of the startup (SpecTools).                                  *)
(***************************************************************************)
ConnectFailed ==
    lifespanLog.connect # "none" /\ lifespanLog.connect_raised # NoException

\* C14: when connect() fails during startup, whatever the failure, the
\* exception leaves lifespan, the application is never serving, and
\* disconnect() is called on the client that was created: with a teardown
\* that works, nothing the failed connect() opened stays open
C14_FailedConnectAbortsAndCleans ==
    ConnectFailed
        => /\ appState = "aborted"
           /\ lifespanLog.raised = lifespanLog.connect_raised
           /\ lifespanLog.disconnect_called
           /\ lifespanLog.exit_io = "ok"
                 => /\ mcpSelf = NewClient
                    /\ liveSessions = {}
                    /\ liveTransports = {}

\* the handshake timed out after the transport and the session were opened,
\* and the cleanup closed both
C14_Witness ==
    /\ lifespanLog.connect = "initialize_timeout"
    /\ lifespanLog.raised = "TimeoutError"
    /\ appState = "aborted"
    /\ spawned = 1
    /\ mcpSelf = NewClient
    /\ liveTransports = {}

(***************************************************************************)
(* Properties of the chat endpoint (SpecTools).                            *)
(***************************************************************************)
ChatServed == lastExec.caller = "chat"

\* C15: a served request ran the Router first and then only handlers, one
\* after the other in the order of the plan
C15_RouterThenHandlersInOrder ==
    ChatServed
        => /\ Len(lastExec.agents_run) >= 2
           /\ lastExec.agents_run[1] = "OrchestratorAgent"
           /\ \A i \in 2..Len(lastExec.agents_run) :
                 lastExec.agents_run[i] \in DOMAIN HandlerPlugin

\* C16: whatever fails while a chat request is served, the user gets a
\* normal response body, never an error status of the transport
C16_ChatFailureIsResponseText ==
    ChatServed => lastExec.result.kind = "return"

\* C20: every LLM call made so far and every await of the connect() of the
\* startup ran under an explicit timeout
C20_EveryExternalCallTimed ==
    /\ \A c \in llmCalls : c.timeout # NoTimeout
    /\ lifespanLog.connect # "none"
          => \A i \in 1..Len(lifespanLog.awaits) :
                lifespanLog.awaits[i].timeout # NoTimeout

(***************************************************************************)
(* Properties of the tool functions under I/O failures (SpecToolFns).      *)
(***************************************************************************)
\* what came back is a text, not an exception
IsText(r) == r.kind \in {"return", "refused", "not_found", "processed"}

IsFailureText(r) == r.kind = "return" /\ r.marker = ErrorMarker

\* the file operations of the last ticket tool call failed
FileFailed ==
    IF lastCall.op = "process_pending_ticket" THEN lastCall.io # "ok"
    ELSE lastCall.io = "missing" \/ (lastCall.io = "malformed" /\ lastCall.csv # <<>>)

\* the last webhook tool call had no session, or its call_tool failed
TransportFailed ==
    lastTool.self.session = None \/ lastTool.io \in {"timeout", "error"}

\* C17: each of the ten tool functions returns a text whatever its I/O does,
\* and a failure text when its I/O failed: the store file missing or
\* malformed or unwritable, the pool not created, the statement rejected or
\* timed out, the client not connected, call_tool raising or timing out
C17_ToolsReturnFailureText ==
    /\ lastCall.op # "none"
          => /\ IsText(lastCall.text)
             /\ FileFailed => IsFailureText(lastCall.text)
    /\ lastDb.op # "none"
          => /\ IsText(lastDb.text)
             /\ DbRaises(lastDb.pool, lastDb.io) => IsFailureText(lastDb.text)
    /\ lastTool.tool \in ToolNames
          => /\ IsText(lastTool.result.text)
             /\ TransportFailed => IsFailureText(lastTool.result.text)

\* the rewrite of the store failed and the call returned the error text
C17_Witness ==
    /\ lastCall.op = "process_pending_ticket"
    /\ lastCall.io = "write_fails"
    /\ lastCall.text = ProcessErrorText

\* the store the last process_pending_ticket call would leave if its file
\* operations all worked
CompleteNew ==
    process_pending_ticket(lastCall.csv, lastCall.files, lastCall.now,
                           lastCall.ticket_number).csv

\* C18: when the rewrite of the store fails, at the opening or at any row,
\* the store holds all the prior records or all the new ones, and the
\* backup of the prior store is there
C18_AtomicOverwrite ==
    (/\ lastCall.op = "process_pending_ticket"
     /\ lastCall.io \in {"write_open_fails", "write_fails"})
    => /\ store \in {lastCall.csv, CompleteNew}
       /\ lastCall.now \in DOMAIN backups
       /\ backups[lastCall.now] = lastCall.csv

(***************************************************************************)
(* Properties of the tool host (SpecHost).                                 *)
(***************************************************************************)
\* the status the caller asked for: done for the plain notification, and
\* for the custom one when it names none
StatusInEffect ==
    IF hostCall.name = "send_ticket_notification" THEN "done"
    ELSE Get(hostCall.arguments, "status", "done")

\* C19: the body of every POST carries the ticket_number the caller passed
\* and the status in effect, together with the metadata entries; no
\* metadata entry changes the ticket_number or the status of the body
C19_BodyCarriesNumberAndStatus ==
    (hostPosted.sent /\ hostPosted.method = "POST")
    => /\ hostPosted.body.ticket_number = hostCall.arguments.ticket_number
       /\ hostPosted.body.status = StatusInEffect
       /\ hostCall.name = "send_custom_webhook"
             => \A k \in DOMAIN Get(hostCall.arguments, "metadata", <<>>) :
                   k \in DOMAIN hostPosted.body

(***************************************************************************)
(* More properties of the MCP client (SpecMcp).                            *)
(***************************************************************************)
\* this step runs a tool function, the same call as the last one included
ToolRunStep ==
    /\ lastTool'.tool \in ToolNames
    /\ lastTool' # lastTool \/ hostCalls' # hostCalls

\* the last tool call was sent to the tool host and timed out
TimedOut ==
    /\ lastTool.tool \in ToolNames
    /\ lastTool.result.issued
    /\ lastTool.io = "timeout"

\* C26: a tool call on a client with a session that times out returns a
\* failure text and leaves the client and its session as they were; the
\* tool call that follows it is sent to the tool host again
C26_TimeoutKeepsConnected ==
    [][/\ (ToolRunStep /\ mcpSelf.session # None /\ lastTool'.io = "timeout"
             /\ lastTool'.result.issued)
           => /\ IsFailureText(lastTool'.result.text)
              /\ UNCHANGED <<mcpSelf, liveSessions, liveTransports>>
       /\ (TimedOut /\ ToolRunStep
             /\ lastTool'.tool \in {"send_ticket_webhook", "check_webhook_health"})
           => /\ lastTool'.result.issued
              /\ hostCalls' = hostCalls + 1
              /\ lastTool'.result.text # NotConnectedText]_vars

\* a call timed out and the next call of the client reached the tool host
C26_Witness ==
    /\ lastTool.tool = "check_webhook_health"
    /\ lastTool.io = "timeout"
    /\ lastTool.result.issued
    /\ hostCalls = 2
    /\ mcpSelf.session # None

\* the last connect() raised after it had assigned self.session
FailedAfterSession ==
    /\ lastTool.tool = "connect"
    /\ lastTool.raised # NoException
    /\ lastTool.io \in {"session_error", "initialize_timeout", "initialize_error"}

\* C27: after a connect() that raised at a step after the session object was
\* created, the client holds no session
C27_FailedConnectLeavesNoSession ==
    FailedAfterSession => mcpSelf.session = None

(***************************************************************************)
(* The backups of the store (SpecStore).                                   *)
(***************************************************************************)
\* C29: a call that processed a ticket leaves every backup that was there
\* before it as it was and adds one more, holding the store the call read,
\* also when an earlier call ran within the same second
C29_EachCallOwnBackup ==
    (Processed /\ lastCall.text.kind = "processed")
    => /\ lastCall.now \notin DOMAIN lastCall.files
       /\ \A t \in DOMAIN lastCall.files :
             t \in DOMAIN backups /\ backups[t] = lastCall.files[t]
       /\ Cardinality(DOMAIN backups) = Cardinality(DOMAIN lastCall.files) + 1
       /\ backups[lastCall.now] = lastCall.csv

(***************************************************************************)
(* What the ticket tools may do to the store (SpecToolFns).                *)
(***************************************************************************)
\* the tools of the two ticket plugins that are meant to read only
ReadTools == {"search_ticket", "list_all_tickets", "list_pending_tickets"}

\* record i is the same in both stores but for a status that went from
\* pending (letter case aside) to solved
KeptOrSolved(before, after, i) ==
    \/ after[i] = before[i]
    \/ /\ Lower(before[i].status) = PENDING
       /\ after[i] = [before[i] EXCEPT !.status = SOLVED]

\* C30: after any call of a ticket tool the store holds the records it held
\* before the call, in the same order; a search or list tool changed
\* nothing; process_pending_ticket changed at most one record, and only its
\* status from pending to solved; no solved record stopped being solved
C30_StoreKeepsRecords ==
    lastCall.op # "none"
    => /\ Len(store) = Len(lastCall.csv)
       /\ lastCall.op \in ReadTools => store = lastCall.csv
       /\ \A i \in 1..Len(store) :
             /\ KeptOrSolved(lastCall.csv, store, i)
             /\ lastCall.csv[i].status = SOLVED => store[i].status = SOLVED
       /\ Cardinality({i \in 1..Len(store) : store[i] # lastCall.csv[i]}) <= 1

(***************************************************************************)
(* The handlers' plugins and answers (SpecTools).                          *)
(***************************************************************************)
\* C23: while the application serves, the plugin each handler names in its
\* tool filter is in the kernel, and every LLM call of a handler advertises
\* the handler's declared tools, all of them and at least one
C23_HandlerPluginRegistered ==
    /\ appState = "serving" => \A h \in HandlerIds : HandlerPlugin[h] \in plugins
    /\ \A c \in HandlerCalls :
          c.tools = DeclaredTools(c.caller) /\ c.tools # {}

\* C24: a handler whose LLM call gave no message, or a message without
\* content, returns its failure text
C24_NoContentIsFailureText ==
    (/\ lastExec.caller \in HandlerIds
     /\ lastExec.llm \in {"empty", "none_content", "empty_content"})
        => IsFailureText(lastExec.result)

(***************************************************************************)
(* Properties of the shared conversation (SpecChat, SpecAgents).           *)
(***************************************************************************)
IsPrefix(a, b) == Len(a) <= Len(b) /\ SubSeq(b, 1, Len(a)) = a

\* this step belongs to a /chat request
ChatStep == requests' # requests

\* C21: every step leaves each ChatHistory with the messages it had, in
\* their places, and can only add messages after them; the steps of a chat
\* request, failing ones included, keep the global on the same object
C21_LogOnlyAppended ==
    [][/\ Len(histories) <= Len(histories')
       /\ \A h \in DOMAIN histories : IsPrefix(histories[h], histories'[h])
       /\ ChatStep => chat_history' = chat_history]_vars

\* a request failed and left its user message, the next one was answered
C21_Witness ==
    /\ Awaited = {}
    /\ lastExec.caller = "chat" /\ lastExec.result.kind = "return"
    /\ histories[chat_history] =
           <<SystemMessage("main"), UserMessage(ChatText, 1),
             UserMessage(ChatText, 2), AssistantMessage("response_text", 2)>>

\* the place of the user message that the assistant message at k answers:
\* the last user message of its request before k (0: none)
AnsweredAt(log, k) ==
    LET before == {i \in 1..(k - 1) :
                      log[i].role = "user" /\ log[i].req = log[k].req}
    IN  IF before = {} THEN 0
        ELSE CHOOSE i \in before : \A j \in before : j <= i

\* the LLM call of request r got the user message of request q
Sees(r, q) ==
    /\ requests[r].history = requests[q].history
    /\ requests[q].at < requests[r].at

\* C22: no message of another request lies between a request's user
\* message and its reply, and no awaited LLM call got the user message of
\* another request that is still awaited
C22_RequestsDoNotInterleave ==
    /\ \A h \in DOMAIN histories :
          \A k \in 1..Len(histories[h]) :
             (histories[h][k].role = "assistant" /\ AnsweredAt(histories[h], k) # 0)
             => \A j \in (AnsweredAt(histories[h], k) + 1)..(k - 1) :
                   histories[h][j].req = histories[h][k].req
    /\ \A r, q \in Awaited : r # q => ~Sees(r, q)

\* C28: every assistant message of a ChatHistory has the user message of
\* its request before it in the same ChatHistory
C28_ReplyFollowsItsQuestion ==
    \A h \in DOMAIN histories :
        \A k \in 1..Len(histories[h]) :
            histories[h][k].role = "assistant" => AnsweredAt(histories[h], k) # 0

\* this step is an LLM call of the router or of a handler
AgentStep ==
    /\ lastContext'.caller \in HandlerIds \cup {"router"}
    /\ lastContext' # lastContext \/ histories' # histories

\* C25: a call of the router or of a handler leaves every ChatHistory and
\* the global as they were; its LLM call gets a new ChatHistory holding the
\* caller's system message and the user message and nothing of the shared
\* conversation; the routing call has tool calling off
C25_AgentsLeaveSharedLog ==
    [][AgentStep
       => /\ histories' = histories
          /\ chat_history' = chat_history
          /\ lastContext'.history = Fresh
          /\ \E text \in UserTexts :
                lastContext'.messages =
                    <<SystemMessage(lastContext'.caller), UserMessage(text, 0)>>
          /\ \A i \in 1..Len(lastContext'.messages) :
                \A k \in 1..Len(histories[chat_history]) :
                    lastContext'.messages[i] # histories[chat_history][k]
          /\ lastContext'.caller = "router" => lastContext'.tools = "none"]_vars

\* the router and then a handler were called with a conversation of three
\* messages
C25_Witness ==
    /\ routeResult # NoReply
    /\ lastContext.caller = "ProcessorAgent"
    /\ lastContext.history = Fresh
    /\ Len(histories[chat_history]) = 3
====
